---------------------------- MODULE Spec2Model ----------------------------
(***************************************************************************)
(* Telemetry subsystem of llama-cpp-python (ZenHubHQ fork):                *)
(*   - llama_metrics.py : MetricsExporter (Prometheus instruments)         *)
(*   - _utils.py        : nvidia-smi queries, monitor_task_queue           *)
(* Floats are modelled by integers; only their sign and equality matter.   *)
(***************************************************************************)
EXTENDS Integers, Sequences, FiniteSets, TLC

VARIABLES
    \* ---- llama_metrics.py ----
    registry,     \* prometheus default registry: metric name -> collectors registered
    exporter,     \* TRUE once a MetricsExporter instance exists
    hist,         \* histogram name -> label values -> observation count
    gauge,        \* gauge name -> label values -> current value (None: never set)
    info,         \* value of the Info instrument (None: never set)
    calls,        \* number of MetricsExporter operations performed so far
    lastCall,     \* the last MetricsExporter operation, its inputs and its outcome
    \* ---- _utils.py: nvidia-smi queries ----
    gpuPc,        \* "idle", or "waiting" inside subprocess.check_output
    gpuHung,      \* the spawned nvidia-smi process never exits
    gpuCall,      \* the query being executed: [op, pid]
    lastGpu,      \* the finished query: how the tool ended, its output, the outcome
    \* ---- _utils.py: monitor_task_queue on the asyncio event loop ----
    tasks,        \* task id -> [state, kind]: the tasks of the event loop
    ready,        \* the event loop's queue of tasks ready to run, oldest first
    running,      \* the task the loop thread is executing (0: none)
    mpc,          \* position of the running monitor_task_queue coroutine
    all_tasks,    \* its local variable all_tasks
    status_dict,  \* the shared status dictionary
    obs,          \* what a reader on another thread last saw in status_dict
    failed,       \* a monitor cycle has raised
    owed,         \* tasks that were ready when the monitor last rescheduled itself
    served        \* those of them that have run since

metricsVars == <<registry, exporter, hist, gauge, info, calls, lastCall>>

gpuVars == <<gpuPc, gpuHung, gpuCall, lastGpu>>

monitorVars ==
    <<tasks, ready, running, mpc, all_tasks, status_dict, obs, failed, owed, served>>

vars == <<metricsVars, gpuVars, monitorVars>>

None == "None"

\* -------------------------------------------------------------------------
\* Bounds of the model
\* -------------------------------------------------------------------------
MaxCalls == 3      \* MetricsExporter operations per behaviour
MaxTokens == 2     \* longest time_per_output_token list
MaxRows == 2       \* most rows of a well-formed nvidia-smi listing
MaxTextLen == 4    \* longest arbitrary nvidia-smi output text
MaxRequests == 2   \* most request tasks alive at a time

\* -------------------------------------------------------------------------
\* llama_metrics.py
\* -------------------------------------------------------------------------
LABELS == <<"request_type", "service">>

LabelKeys == {LABELS[i] : i \in 1..Len(LABELS)}

\* Instruments in the order MetricsExporter.__init__ creates them.
HistogramNames ==
    << "llama_cpp_python:load_t_seconds",
       "llama_cpp_python:sample_t_seconds",
       "llama_cpp_python:ttft_seconds",
       "llama_cpp_python:tpot_seconds",
       "llama_cpp_python:p_eval_t_seconds",
       "llama_cpp_python:c_eval_t_seconds",
       "llama_cpp_python:e2e_seconds",
       "llama_cpp_python:prefill_tokens_total",
       "llama_cpp_python:completion_tokens_total" >>

GaugeNames ==
    << "llama_cpp_python:prompt_eval_throughput",
       "llama_cpp_python:completion_eval_throughput",
       "llama_cpp_python:sample_throughput",
       "llama_cpp_python:state_size",
       "llama_cpp_python:cpu_utilization",
       "llama_cpp_python:cpu_memory_usage_by_pid",
       "llama_cpp_python:gpu_utilization",
       "llama_cpp_python:gpu_memory_usage",
       "llama_cpp_python:gpu_memory_free",
       "llama_cpp_python:gpu_memory_usage_by_pid",
       "llama_cpp_python:kv_cache_usage_ratio" >>

InfoName == "llama_cpp_python:info"

InstrumentNames == HistogramNames \o GaugeNames \o <<InfoName>>

Range(s) == {s[i] : i \in 1..Len(s)}

\* Label values a child instrument is keyed by (the values in LABELS order).
LabelValues == {<<"chat", "svc">>, <<"completion", "svc">>}

\* Label dictionaries a caller passes: well-formed ones, one with a key
\* missing and one with an undeclared key.
LabelDicts ==
    { [k \in LabelKeys |-> IF k = "request_type" THEN lv[1] ELSE lv[2]] : lv \in LabelValues }
    \cup { [k \in {"request_type"} |-> "chat"] }
    \cup { [k \in LabelKeys \cup {"model"} |-> "chat"] }

\* Histogram.labels(**labels) / Gauge.labels(**labels): the keyword names must
\* be exactly the declared label names, otherwise ValueError.
LabelsOk(labels) == DOMAIN labels = LabelKeys

ChildKey(labels) == <<labels["request_type"], labels["service"]>>

\* Values of the Metrics dataclass used as inputs.
Durations == {-1, 2}
Ttfts == {0, 1, 3}
GaugeValues == {0, 1}
SystemInfos == {[model |-> "m1"]}

TpotLists == UNION {[1..n -> {1}] : n \in 0..MaxTokens}

Metrics ==
    { [ system_info |-> si, state_size |-> g, cpu_utilization |-> g,
        cpu_ram_pid |-> g, gpu_utilization |-> g, gpu_ram_usage |-> g,
        gpu_ram_free |-> g, gpu_ram_pid |-> g,
        load_time |-> d, sample_time |-> d, sample_throughput |-> g,
        time_to_first_token |-> t, time_per_output_token |-> tp,
        prompt_eval_time |-> d, prompt_eval_throughput |-> g,
        completion_eval_time |-> d, completion_eval_throughput |-> g,
        end_to_end_latency |-> d, prefill_tokens |-> Len(tp) + 1,
        generation_tokens |-> Len(tp), kv_cache_usage_ratio |-> g ] :
        si \in SystemInfos, g \in GaugeValues, d \in Durations,
        t \in Ttfts, tp \in TpotLists }

\* prometheus_client registers every instrument in the process-wide default
\* registry when it is constructed; a name that is already registered is
\* rejected with ValueError("Duplicated timeseries in CollectorRegistry").
\* RegisterAll walks the constructor's instruments in order and stops at the
\* first rejected one: <<registry afterwards, "ok" or "ValueError">>.
RECURSIVE RegisterAll(_, _)
RegisterAll(reg, names) ==
    IF names = <<>> THEN <<reg, "ok">>
    ELSE IF reg[Head(names)] > 0 THEN <<reg, "ValueError">>
    ELSE RegisterAll([reg EXCEPT ![Head(names)] = @ + 1], Tail(names))

\* `class MetricsExporter:` names no base class and no metaclass: it is not
\* built on Singleton / MetaSingleton of _utils.py.
MetricsExporterIsSingleton == FALSE

\* MetricsExporter().  MetaSingleton.__call__ returns the stored instance of
\* a class that has one; for any other class every call runs __init__.
Construct ==
    /\ calls < MaxCalls
    /\ IF MetricsExporterIsSingleton /\ exporter
       THEN /\ lastCall' = [op |-> "construct", result |-> "ok"]
            /\ UNCHANGED <<registry, exporter>>
       ELSE LET r == RegisterAll(registry, InstrumentNames) IN
            /\ registry' = r[1]
            /\ exporter' = (exporter \/ r[2] = "ok")
            /\ lastCall' = [op |-> "construct", result |-> r[2]]
    /\ calls' = calls + 1
    /\ UNCHANGED <<hist, gauge, info, gpuVars, monitorVars>>

\* Python truthiness of a number: `if metrics.time_to_first_token:`
TruthyAlways(x) == TRUE

Truthy(x) == x # 0

\* Histogram child .observe(value): one more observation.
Observe(h, name, key) == [h EXCEPT ![name][key] = @ + 1]

\* `for _tpot in metrics.time_per_output_token: ....observe(_tpot)`
ObserveOncePerRequest(h, name, key, values) == Observe(h, name, key)

RECURSIVE ObserveEach(_, _, _, _)
ObserveEach(h, name, key, values) ==
    IF values = <<>> THEN h
    ELSE ObserveEach(Observe(h, name, key), name, key, Tail(values))

\* The histogram observations of log_metrics, in source order.
ObserveHistograms(h, m, key) ==
    LET h1 == Observe(h, "llama_cpp_python:load_t_seconds", key)
        h2 == Observe(h1, "llama_cpp_python:sample_t_seconds", key)
        h3 == IF Truthy(m.time_to_first_token)
              THEN Observe(h2, "llama_cpp_python:ttft_seconds", key) ELSE h2
        h4 == ObserveEach(h3, "llama_cpp_python:tpot_seconds", key, m.time_per_output_token)
        h5 == Observe(h4, "llama_cpp_python:p_eval_t_seconds", key)
        h6 == Observe(h5, "llama_cpp_python:c_eval_t_seconds", key)
        h7 == Observe(h6, "llama_cpp_python:e2e_seconds", key)
        h8 == Observe(h7, "llama_cpp_python:prefill_tokens_total", key)
        h9 == Observe(h8, "llama_cpp_python:completion_tokens_total", key)
    IN  h9

\* The gauge .set(value) calls of log_metrics.
GaugeField(m, name) ==
    CASE name = "llama_cpp_python:prompt_eval_throughput" -> m.prompt_eval_throughput
      [] name = "llama_cpp_python:completion_eval_throughput" -> m.completion_eval_throughput
      [] name = "llama_cpp_python:sample_throughput" -> m.sample_throughput
      [] name = "llama_cpp_python:state_size" -> m.state_size
      [] name = "llama_cpp_python:cpu_utilization" -> m.cpu_utilization
      [] name = "llama_cpp_python:cpu_memory_usage_by_pid" -> m.cpu_ram_pid
      [] name = "llama_cpp_python:gpu_utilization" -> m.gpu_utilization
      [] name = "llama_cpp_python:gpu_memory_usage" -> m.gpu_ram_usage
      [] name = "llama_cpp_python:gpu_memory_free" -> m.gpu_ram_free
      [] name = "llama_cpp_python:gpu_memory_usage_by_pid" -> m.gpu_ram_pid
      [] name = "llama_cpp_python:kv_cache_usage_ratio" -> m.kv_cache_usage_ratio

SetGauges(g, m, key) ==
    [name \in DOMAIN g |-> [g[name] EXCEPT ![key] = GaugeField(m, name)]]

\* MetricsExporter.log_metrics(metrics, labels).  The first .labels(**labels)
\* raises ValueError on a label dictionary that does not have exactly the
\* declared keys, before anything is observed.
log_metrics(m, labels) ==
    /\ calls < MaxCalls
    /\ exporter
    /\ IF LabelsOk(labels)
       THEN /\ hist' = ObserveHistograms(hist, m, ChildKey(labels))
            /\ gauge' = SetGauges(gauge, m, ChildKey(labels))
            /\ info' = m.system_info
            /\ lastCall' = [op |-> "log_metrics", metrics |-> m, labels |-> labels,
                            result |-> "ok"]
       ELSE /\ UNCHANGED <<hist, gauge, info>>
            /\ lastCall' = [op |-> "log_metrics", metrics |-> m, labels |-> labels,
                            result |-> "ValueError"]
    /\ calls' = calls + 1
    /\ UNCHANGED <<registry, exporter, gpuVars, monitorVars>>

LogMetrics == \E m \in Metrics, labels \in LabelDicts : log_metrics(m, labels)

\* -------------------------------------------------------------------------
\* _utils.py: get_gpu_info_by_pid, get_gpu_general_info
\* A text is a sequence of one-character strings.
\* -------------------------------------------------------------------------
Digits == <<"0", "1", "2", "3", "4", "5", "6", "7", "8", "9">>

IsDigit(c) == c \in Range(Digits)

DigitValue(c) == (CHOOSE i \in 1..Len(Digits) : Digits[i] = c) - 1

IsSpace(c) == c \in {" ", "\n", "\t", "\r"}

\* str.strip()
RECURSIVE LStrip(_)
LStrip(s) == IF s # <<>> /\ IsSpace(Head(s)) THEN LStrip(Tail(s)) ELSE s

RECURSIVE RStrip(_)
RStrip(s) ==
    IF s # <<>> /\ IsSpace(s[Len(s)]) THEN RStrip(SubSeq(s, 1, Len(s) - 1)) ELSE s

Strip(s) == RStrip(LStrip(s))

StartsWith(s, sep) == Len(s) >= Len(sep) /\ SubSeq(s, 1, Len(sep)) = sep

\* str.split(sep): the pieces between the occurrences of sep, at least one.
RECURSIVE SplitFrom(_, _, _)
SplitFrom(s, sep, cur) ==
    IF s = <<>> THEN <<cur>>
    ELSE IF StartsWith(s, sep)
         THEN <<cur>> \o SplitFrom(SubSeq(s, Len(sep) + 1, Len(s)), sep, <<>>)
         ELSE SplitFrom(Tail(s), sep, Append(cur, Head(s)))

Split(s, sep) == SplitFrom(s, sep, <<>>)

\* str.split(): the maximal runs of non-whitespace characters, possibly none.
RECURSIVE SplitWsFrom(_, _)
SplitWsFrom(s, cur) ==
    LET done == IF cur = <<>> THEN <<>> ELSE <<cur>> IN
    IF s = <<>> THEN done
    ELSE IF IsSpace(Head(s)) THEN done \o SplitWsFrom(Tail(s), <<>>)
         ELSE SplitWsFrom(Tail(s), Append(cur, Head(s)))

SplitWs(s) == SplitWsFrom(s, <<>>)

AllDigits(s) == s # <<>> /\ \A i \in 1..Len(s) : IsDigit(s[i])

Unsigned(s) == IF s # <<>> /\ Head(s) \in {"+", "-"} THEN Tail(s) ELSE s

RECURSIVE DecimalValue(_)
DecimalValue(s) ==
    IF s = <<>> THEN 0
    ELSE 10 * DecimalValue(SubSeq(s, 1, Len(s) - 1)) + DigitValue(s[Len(s)])

SignedValue(s) ==
    IF s # <<>> /\ Head(s) = "-" THEN 0 - DecimalValue(Tail(s))
    ELSE DecimalValue(Unsigned(s))

\* int(text): surrounding whitespace is ignored, then an optional sign and
\* decimal digits; anything else is a ValueError.
IsIntLiteral(s) == AllDigits(Unsigned(Strip(s)))

IntValue(s) == SignedValue(Strip(s))

\* float(token) on the texts of the model (no ".", exponent, "inf" or "nan"
\* among their characters): an optional sign and decimal digits.
IsFloatLiteral(s) == AllDigits(Unsigned(Strip(s)))

FloatValue(s) == SignedValue(Strip(s))

Return(v) == [kind |-> "return", value |-> v]

Raise(e) == [kind |-> "raise", exc |-> e]

\* float(text.split()[0])
FirstTokenAsFloat(text) ==
    LET toks == SplitWs(text) IN
    IF toks = <<>> THEN Raise("IndexError")
    ELSE IF ~IsFloatLiteral(toks[1]) THEN Raise("ValueError")
    ELSE Return(FloatValue(toks[1]))

\* The loop of get_gpu_info_by_pid over the lines of the listing.
RECURSIVE ScanRows(_, _)
ScanRows(lines, pid) ==
    IF lines = <<>> THEN Return(0)
    ELSE LET fields == Split(Head(lines), <<",", " ">>) IN
         IF Len(fields) # 2 THEN Raise("ValueError")
         ELSE IF ~IsIntLiteral(fields[1]) THEN Raise("ValueError")
         ELSE IF IntValue(fields[1]) = pid THEN FirstTokenAsFloat(fields[2])
         ELSE ScanRows(Tail(lines), pid)

\* The body of the try block of get_gpu_info_by_pid after check_output.
ParseGpuInfoByPid(out, pid) == ScanRows(Split(Strip(out), <<"\n">>), pid)

\* The body of the try block of get_gpu_general_info after check_output.
ParseGpuGeneralInfo(out) ==
    LET fields == Split(Split(Strip(out), <<"\n">>)[1], <<",", " ">>) IN
    IF Len(fields) # 3 THEN Raise("ValueError")
    ELSE LET a == FirstTokenAsFloat(fields[1])
             b == FirstTokenAsFloat(fields[2])
             c == FirstTokenAsFloat(fields[3])
         IN  IF a.kind = "raise" THEN a
             ELSE IF b.kind = "raise" THEN b
             ELSE IF c.kind = "raise" THEN c
             ELSE Return(<<a.value, b.value, c.value>>)

\* `except (subprocess.CalledProcessError, FileNotFoundError): pass`
CaughtOnlyCalledProcessError(exc) == exc \in {"CalledProcessError"}

Caught(exc) == exc \in {"CalledProcessError", "FileNotFoundError"}

\* The value after the try statement: 0.0, respectively (0.0, 0.0, 0.0).
Fallback(op) == IF op = "by_pid" THEN 0 ELSE <<0, 0, 0>>

\* What the caller gets from the outcome of the try block.
Finish(op, outcome) ==
    IF outcome.kind = "raise" /\ Caught(outcome.exc) THEN Return(Fallback(op))
    ELSE outcome

NoQuery == [op |-> "none", pid |-> 0, tool |-> "none", result |-> Return(0)]

\* ---- the external tool -------------------------------------------------
RECURSIVE ToDigits(_)
ToDigits(n) ==
    IF n < 10 THEN <<Digits[n + 1]>>
    ELSE ToDigits(n \div 10) \o <<Digits[(n % 10) + 1]>>

Mib == <<" ", "M", "i", "B">>

\* nvidia-smi --query-compute-apps=pid,used_memory --format=csv,noheader
\* prints one line "<pid>, <n> MiB" per process that uses the GPU.
RECURSIVE FormatApps(_)
FormatApps(rows) ==
    IF rows = <<>> THEN <<>>
    ELSE ToDigits(Head(rows)[1]) \o <<",", " ">> \o ToDigits(Head(rows)[2]) \o Mib
         \o <<"\n">> \o FormatApps(Tail(rows))

\* nvidia-smi --query-gpu=utilization.gpu,memory.used,memory.free
\* --format=csv,noheader prints one line "<n> %, <n> MiB, <n> MiB" per GPU.
RECURSIVE FormatGpus(_)
FormatGpus(rows) ==
    IF rows = <<>> THEN <<>>
    ELSE ToDigits(Head(rows)[1]) \o <<" ", "%", ",", " ">>
         \o ToDigits(Head(rows)[2]) \o Mib \o <<",", " ">>
         \o ToDigits(Head(rows)[3]) \o Mib \o <<"\n">> \o FormatGpus(Tail(rows))

QueryPids == {7, 12, 34}
ListedPids == {7, 12}
MemValues == {0, 512}

AppRows == ListedPids \X MemValues
GpuRows == {0, 45} \X {512} \X {0, 6144}

AppListings == UNION {[1..n -> AppRows] : n \in 0..MaxRows}
GpuListings == UNION {[1..n -> GpuRows] : n \in 1..MaxRows}

\* Arbitrary short output texts.
TextChars == {"7", ",", " ", "\n", "M"}
Texts == UNION {[1..n -> TextChars] : n \in 0..MaxTextLen}

\* Output texts of a tool run that exits with status 0: the text printed
\* from a listing (listed, rows), or an arbitrary text.
ToolOutputs(op) ==
    (IF op = "by_pid"
     THEN {[listed |-> TRUE, rows |-> r, text |-> FormatApps(r)] : r \in AppListings}
     ELSE {[listed |-> TRUE, rows |-> r, text |-> FormatGpus(r)] : r \in GpuListings})
    \cup {[listed |-> FALSE, rows |-> <<>>, text |-> t] : t \in Texts}

\* get_gpu_info_by_pid(pid) / get_gpu_general_info() up to check_output:
\* without nvidia-smi on the search path (onPath false) check_output raises
\* FileNotFoundError at once; otherwise the call blocks until the process
\* exits (check_output is given no timeout).
GpuQueryStart(op, pid, onPath) ==
    /\ gpuPc = "idle"
    /\ IF ~onPath
       THEN /\ lastGpu' = [op |-> op, pid |-> pid, tool |-> "absent",
                           result |-> Finish(op, Raise("FileNotFoundError"))]
            /\ UNCHANGED <<gpuPc, gpuHung, gpuCall>>
       ELSE /\ gpuPc' = "waiting"
            /\ gpuCall' = [op |-> op, pid |-> pid]
            /\ gpuHung' \in BOOLEAN
            /\ lastGpu' = NoQuery
    /\ UNCHANGED <<metricsVars, monitorVars>>

\* nvidia-smi exits with a non-zero status: CalledProcessError.
ToolExitsWithError ==
    /\ gpuPc = "waiting" /\ ~gpuHung
    /\ lastGpu' = [op |-> gpuCall.op, pid |-> gpuCall.pid, tool |-> "error",
                   result |-> Finish(gpuCall.op, Raise("CalledProcessError"))]
    /\ gpuPc' = "idle"
    /\ UNCHANGED <<gpuHung, gpuCall, metricsVars, monitorVars>>

\* nvidia-smi exits with status 0 and the rest of the try block runs.
ToolExitsWithOutput ==
    /\ gpuPc = "waiting" /\ ~gpuHung
    /\ \E o \in ToolOutputs(gpuCall.op) :
         lastGpu' = [op |-> gpuCall.op, pid |-> gpuCall.pid, tool |-> "ok",
                     listed |-> o.listed, rows |-> o.rows, text |-> o.text,
                     result |-> Finish(gpuCall.op,
                                       IF gpuCall.op = "by_pid"
                                       THEN ParseGpuInfoByPid(o.text, gpuCall.pid)
                                       ELSE ParseGpuGeneralInfo(o.text))]
    /\ gpuPc' = "idle"
    /\ UNCHANGED <<gpuHung, gpuCall, metricsVars, monitorVars>>

get_gpu_info_by_pid ==
    \E pid \in QueryPids, onPath \in BOOLEAN : GpuQueryStart("by_pid", pid, onPath)

get_gpu_general_info == \E onPath \in BOOLEAN : GpuQueryStart("general", 0, onPath)

\* check_output returns or raises once the process has exited.
ToolExits == ToolExitsWithError \/ ToolExitsWithOutput

InitGpu ==
    /\ gpuPc = "idle"
    /\ gpuHung = FALSE
    /\ gpuCall = [op |-> "none", pid |-> 0]
    /\ lastGpu = NoQuery

NextGpu ==
    \/ get_gpu_info_by_pid
    \/ get_gpu_general_info
    \/ ToolExitsWithError
    \/ ToolExitsWithOutput

\* -------------------------------------------------------------------------
\* _utils.py: monitor_task_queue
\* The asyncio event loop runs one task step at a time on its thread, taking
\* the oldest entry of its ready queue; create_task appends the new task to
\* that queue.  A task's name ("Task-<n>") is modelled by its id.
\* -------------------------------------------------------------------------
TaskIds == 1..(MaxRequests + 4)

NoTask == [state |-> "NONE", kind |-> "none"]

Pending(ts) == {t \in DOMAIN ts : ts[t].state = "PENDING"}

PendingOfKind(k) == {t \in Pending(tasks) : tasks[t].kind = k}

\* A task that is done leaves the loop's (weak) set of tasks.
Done(ts, t) == [ts EXCEPT ![t] = NoTask]

\* A task name not used by an unfinished task.
FreshId == CHOOSE t \in TaskIds : tasks[t].state # "PENDING"
                                  /\ \A u \in TaskIds : u < t => tasks[u].state = "PENDING"

\* Unfinished tasks that wait for I/O: neither running nor ready.
Blocked == {t \in PendingOfKind("request") : t # running /\ t \notin Range(ready)}

\* loop.call_soon: the loop's ready queue is first in, first out.
CallSoon(q, t) == Append(q, t)

\* asyncio.create_task: the first step of the new task is handed to
\* loop.call_soon.
CreateTaskAhead(q, t) == <<t>> \o q

CreateTask(q, t) == CallSoon(q, t)

\* The docstring: "Any upcoming requests will be added to the task queue in
\* the form of another RequestReponseCycle.run_asgi coroutine."
RequestArrives ==
    /\ running = 0
    /\ Cardinality(PendingOfKind("request")) < MaxRequests
    /\ tasks' = [tasks EXCEPT ![FreshId] = [state |-> "PENDING", kind |-> "request"]]
    /\ ready' = CreateTask(ready, FreshId)
    /\ UNCHANGED <<running, mpc, all_tasks, status_dict, obs, failed, owed, served>>
    /\ UNCHANGED <<metricsVars, gpuVars>>

\* The loop runs one step of a request task, which ends the task or leaves
\* it waiting for I/O.
RequestRuns ==
    /\ running = 0
    /\ ready # <<>>
    /\ tasks[Head(ready)].kind = "request"
    /\ ready' = Tail(ready)
    /\ \E ends \in BOOLEAN :
         tasks' = IF ends THEN Done(tasks, Head(ready)) ELSE tasks
    /\ served' = served \cup ({Head(ready)} \cap owed)
    /\ UNCHANGED <<running, mpc, all_tasks, status_dict, obs, failed, owed>>
    /\ UNCHANGED <<metricsVars, gpuVars>>

\* The I/O a request task waits for completes: the task is ready again.
RequestWakes ==
    /\ running = 0
    /\ \E t \in Blocked : ready' = CallSoon(ready, t)
    /\ UNCHANGED <<tasks, running, mpc, all_tasks, status_dict, obs, failed, owed, served>>
    /\ UNCHANGED <<metricsVars, gpuVars>>

\* The loop starts the step of a monitor_task_queue task.
MonitorStarts ==
    /\ running = 0
    /\ ready # <<>>
    /\ tasks[Head(ready)].kind = "monitor"
    /\ running' = Head(ready)
    /\ ready' = Tail(ready)
    /\ mpc' = "enumerate"
    /\ UNCHANGED <<tasks, all_tasks, status_dict, obs, failed, owed, served>>
    /\ UNCHANGED <<metricsVars, gpuVars>>

\* dict item assignment: status_dict[key] = value
SetItem(d, key, value) ==
    [k \in DOMAIN d \cup {key} |-> IF k = key THEN value ELSE d[k]]

\* asyncio.all_tasks(): the tasks of the loop that are not done.
AllTasks == {t \in TaskIds : tasks[t].state \notin {"NONE", "FINISHED", "CANCELLED"}}

\* An exception leaves the coroutine: the task is done and nothing after the
\* raising statement has run (the function has no try statement).
MonitorRaises ==
    /\ tasks' = Done(tasks, running)
    /\ running' = 0
    /\ mpc' = "idle"
    /\ failed' = TRUE
    /\ UNCHANGED <<ready, all_tasks, status_dict, obs, owed, served>>
    /\ UNCHANGED <<metricsVars, gpuVars>>

\* all_tasks = asyncio.all_tasks(); the list of PENDING tasks;
\* status_dict["running_tasks_count"] = len(_all_tasks)
MonitorCounts ==
    /\ mpc = "enumerate"
    /\ \/ /\ all_tasks' = AllTasks
          /\ status_dict' = SetItem(status_dict, "running_tasks_count",
                 Cardinality({t \in AllTasks : tasks[t].state = "PENDING"}))
          /\ mpc' = "describe"
          /\ UNCHANGED <<tasks, ready, running, obs, failed, owed, served>>
          /\ UNCHANGED <<metricsVars, gpuVars>>
       \/ MonitorRaises

\* status_dict["running_tasks"] = {task.get_name(): str(task.get_coro())...}
\* The description of a task is modelled by the kind of its coroutine.
MonitorDescribes ==
    /\ mpc = "describe"
    /\ \/ /\ status_dict' = SetItem(status_dict, "running_tasks",
                 [t \in all_tasks |-> tasks[t].kind])
          /\ mpc' = "reschedule"
          /\ UNCHANGED <<tasks, ready, running, all_tasks, obs, failed, owed, served>>
          /\ UNCHANGED <<metricsVars, gpuVars>>
       \/ MonitorRaises

\* asyncio.create_task(monitor_task_queue(status_dict))
MonitorReschedules ==
    /\ mpc = "reschedule"
    /\ tasks' = [tasks EXCEPT ![FreshId] = [state |-> "PENDING", kind |-> "monitor"]]
    /\ ready' = CreateTask(ready, FreshId)
    /\ owed' = Range(ready)
    /\ served' = {}
    /\ mpc' = "return"
    /\ UNCHANGED <<running, all_tasks, status_dict, obs, failed>>
    /\ UNCHANGED <<metricsVars, gpuVars>>

\* The coroutine returns: its task is done.
MonitorReturns ==
    /\ mpc = "return"
    /\ tasks' = Done(tasks, running)
    /\ running' = 0
    /\ mpc' = "idle"
    /\ UNCHANGED <<ready, all_tasks, status_dict, obs, failed, owed, served>>
    /\ UNCHANGED <<metricsVars, gpuVars>>

\* What a reader of the two fields sees: whether each key is there, the
\* count, and the number of described tasks.
View(d) ==
    [ hasCount |-> "running_tasks_count" \in DOMAIN d,
      count |-> IF "running_tasks_count" \in DOMAIN d THEN d["running_tasks_count"] ELSE 0,
      hasTasks |-> "running_tasks" \in DOMAIN d,
      described |-> IF "running_tasks" \in DOMAIN d
                    THEN Cardinality(DOMAIN d["running_tasks"]) ELSE 0 ]

\* A reader on another thread reads the dictionary; the monitor takes no
\* lock and swaps no whole dictionary, so the read may fall between its
\* two assignments.
ObserverReads ==
    /\ obs' = View(status_dict)
    /\ UNCHANGED <<tasks, ready, running, mpc, all_tasks, status_dict, failed, owed, served>>
    /\ UNCHANGED <<metricsVars, gpuVars>>

\* The docstring's tasks: LifespanOn.main (1) and Server.serve (2) wait for
\* I/O, the first monitor_task_queue task (3) is ready, status_dict is empty.
InitMonitor ==
    /\ tasks = [t \in TaskIds |->
                 CASE t = 1 -> [state |-> "PENDING", kind |-> "main"]
                   [] t = 2 -> [state |-> "PENDING", kind |-> "serve"]
                   [] t = 3 -> [state |-> "PENDING", kind |-> "monitor"]
                   [] OTHER -> NoTask]
    /\ ready = <<3>>
    /\ running = 0
    /\ mpc = "idle"
    /\ all_tasks = {}
    /\ status_dict = [k \in {} |-> 0]
    /\ obs = View(status_dict)
    /\ failed = FALSE
    /\ owed = {}
    /\ served = {}

NextMonitor ==
    \/ RequestArrives
    \/ RequestRuns
    \/ RequestWakes
    \/ MonitorStarts
    \/ MonitorCounts
    \/ MonitorDescribes
    \/ MonitorReschedules
    \/ MonitorReturns
    \/ ObserverReads

InitMetrics ==
    /\ registry = [n \in Range(InstrumentNames) |-> 0]
    /\ exporter = FALSE
    /\ hist = [n \in Range(HistogramNames) |-> [k \in LabelValues |-> 0]]
    /\ gauge = [n \in Range(GaugeNames) |-> [k \in LabelValues |-> None]]
    /\ info = None
    /\ calls = 0
    /\ lastCall = [op |-> "none", result |-> "ok"]

NextMetrics ==
    \/ Construct
    \/ LogMetrics

Init == InitMetrics /\ InitGpu /\ InitMonitor

Next == NextMetrics \/ NextGpu \/ NextMonitor

Spec == Init /\ [][Next]_vars

\* Each component on its own, the others left in their initial state.
SpecMetrics == Init /\ [][NextMetrics]_vars

SpecGpu == Init /\ [][NextGpu]_vars

\* A spawned nvidia-smi that is not hung exits.
SpecGpuFair == SpecGpu /\ WF_vars(ToolExits)

SpecMonitor == Init /\ [][NextMonitor]_vars

\* =========================================================================
\* Properties
\* =========================================================================
NonNegative(m) ==
    /\ \A f \in {"state_size", "cpu_utilization", "cpu_ram_pid", "gpu_utilization",
                 "gpu_ram_usage", "gpu_ram_free", "gpu_ram_pid", "load_time",
                 "sample_time", "sample_throughput", "time_to_first_token",
                 "prompt_eval_time", "prompt_eval_throughput", "completion_eval_time",
                 "completion_eval_throughput", "end_to_end_latency", "prefill_tokens",
                 "generation_tokens", "kv_cache_usage_ratio"} : m[f] >= 0
    /\ \A i \in 1..Len(m.time_per_output_token) : m.time_per_output_token[i] >= 0

ScalarHistograms ==
    Range(HistogramNames) \ {"llama_cpp_python:ttft_seconds", "llama_cpp_python:tpot_seconds"}

\* A step that is a call of log_metrics.
IsLogStep == calls' = calls + 1 /\ lastCall'.op = "log_metrics"

\* C1: a log_metrics call with non-negative fields and exactly the declared
\* label keys completes without error, adds exactly one observation to each
\* scalar-field histogram of that label set and len(time_per_output_token)
\* observations to the per-output-token histogram.
C1_RecordCounts ==
    [][ (IsLogStep /\ LabelsOk(lastCall'.labels) /\ NonNegative(lastCall'.metrics)) =>
          LET key == ChildKey(lastCall'.labels) IN
          /\ lastCall'.result = "ok"
          /\ \A n \in ScalarHistograms : hist'[n][key] = hist[n][key] + 1
          /\ hist'["llama_cpp_python:tpot_seconds"][key] =
                 hist["llama_cpp_python:tpot_seconds"][key]
                 + Len(lastCall'.metrics.time_per_output_token) ]_vars

C1_Witness ==
    /\ lastCall.op = "log_metrics" /\ lastCall.result = "ok"
    /\ NonNegative(lastCall.metrics)
    /\ Len(lastCall.metrics.time_per_output_token) = 2
    /\ hist["llama_cpp_python:tpot_seconds"][ChildKey(lastCall.labels)] = 3
    /\ hist["llama_cpp_python:e2e_seconds"][ChildKey(lastCall.labels)] = 2

\* C2: a log_metrics call whose time_to_first_token is zero adds nothing to
\* the time-to-first-token histogram; one whose time_to_first_token is
\* positive (with the declared label keys) adds exactly one observation, to
\* the child of its label set.
C2_TtftOnlyWhenNonZero ==
    [][ IsLogStep =>
          LET m == lastCall'.metrics
              h == "llama_cpp_python:ttft_seconds" IN
          /\ m.time_to_first_token = 0 => hist'[h] = hist[h]
          /\ (m.time_to_first_token > 0 /\ LabelsOk(lastCall'.labels)) =>
                hist'[h] = [hist[h] EXCEPT ![ChildKey(lastCall'.labels)] = @ + 1] ]_vars

C2_Witness ==
    /\ calls = 3
    /\ lastCall.op = "log_metrics" /\ lastCall.result = "ok"
    /\ lastCall.metrics.time_to_first_token = 0
    /\ hist["llama_cpp_python:ttft_seconds"][ChildKey(lastCall.labels)] = 1
    /\ hist["llama_cpp_python:load_t_seconds"][ChildKey(lastCall.labels)] = 2

\* C3: whatever a reader sees in the status dictionary is a whole snapshot:
\* both fields or (before the first cycle) neither, the count being the
\* number of described tasks (every task all_tasks() returns is pending when
\* it is enumerated).
C3_StatusNeverTorn ==
    /\ obs.hasCount = obs.hasTasks
    /\ obs.count = obs.described

\* C4: with nvidia-smi absent from the search path, or exiting with an
\* error, both queries return the zero fallback and raise nothing.
C4_AbsentOrFailingToolFallsBack ==
    lastGpu.tool \in {"absent", "error"} =>
        lastGpu.result = Return(Fallback(lastGpu.op))

C4_Witness ==
    /\ lastGpu.tool = "absent"
    /\ lastGpu.op = "general"
    /\ lastGpu.result = Return(<<0, 0, 0>>)

\* The memory of the first row of a listing with the pid, 0 without one.
RECURSIVE MemoryOf(_, _)
MemoryOf(rows, pid) ==
    IF rows = <<>> THEN 0
    ELSE IF Head(rows)[1] = pid THEN Head(rows)[2]
    ELSE MemoryOf(Tail(rows), pid)

\* C5: for every listing of zero or more (pid, memory) rows printed by the
\* tool and every queried pid, get_gpu_info_by_pid returns the memory of the
\* row with that pid, and 0.0 when no row has it.
C5_MemoryOfListedPid ==
    (lastGpu.op = "by_pid" /\ lastGpu.tool = "ok" /\ lastGpu.listed) =>
        lastGpu.result = Return(MemoryOf(lastGpu.rows, lastGpu.pid))

\* A line that is not a row of the expected form: n comma-separated fields,
\* a pid that is a number (per-process listing), values that are numbers.
MalformedLine(op, line) ==
    LET fields == Split(line, <<",", " ">>)
        n == IF op = "by_pid" THEN 2 ELSE 3 IN
    \/ Len(fields) # n
    \/ op = "by_pid" /\ ~IsIntLiteral(fields[1])
    \/ \E i \in (IF op = "by_pid" THEN {2} ELSE {1, 2, 3}) :
          FirstTokenAsFloat(fields[i]).kind = "raise"

\* A text that is not empty and has a malformed line (an empty text is the
\* listing of no rows).
Malformed(op, text) ==
    LET lines == Split(Strip(text), <<"\n">>) IN
    /\ Strip(text) # <<>>
    /\ \E i \in 1..Len(lines) : MalformedLine(op, lines[i])

\* C6: when the tool succeeds with an output of unexpected format, both
\* queries return the zero fallback and raise nothing.
C6_MalformedOutputFallsBack ==
    (lastGpu.tool = "ok" /\ Malformed(lastGpu.op, lastGpu.text)) =>
        lastGpu.result = Return(Fallback(lastGpu.op))

\* C7: every construction of MetricsExporter succeeds, and no name is
\* registered twice.
C7_ConstructionIdempotent ==
    /\ lastCall.op = "construct" => lastCall.result = "ok"
    /\ \A n \in Range(InstrumentNames) : registry[n] <= 1

\* C8: after a monitor cycle has failed, a next monitor cycle is scheduled.
C8_FailedCycleReschedules ==
    failed => PendingOfKind("monitor") # {}

\* C9: a query that waits for nvidia-smi eventually returns to its caller.
C9_QueryReturns == (gpuPc = "waiting") ~> (gpuPc = "idle")

\* C10: as long as no cycle fails, a monitor task is always unfinished; at
\* most one unfinished monitor task exists besides the running one; a cycle
\* that is about to return has scheduled exactly one successor, which is in
\* the ready queue; and when a cycle begins, every task that was ready when
\* the previous cycle rescheduled itself has run.
C10_MonitorPerpetualAndFair ==
    LET successors == PendingOfKind("monitor") \ {running} IN
    /\ ~failed => PendingOfKind("monitor") # {}
    /\ Cardinality(successors) <= 1
    /\ mpc = "return" => (Cardinality(successors) = 1 /\ successors \subseteq Range(ready))
    /\ mpc \in {"enumerate", "describe", "reschedule"} => successors = {}
    /\ mpc = "enumerate" => served = owed

C10_Witness ==
    /\ mpc = "enumerate"
    /\ ~failed
    /\ Cardinality(served) = 2
    /\ status_dict # <<>>

=============================================================================
